---- MODULE Spec2Model ----
(***************************************************************************)
(* A model of main.py, the SEO content outline generator: the HTML         *)
(* extractor, the heading aggregator, the embedding-based rankers, the     *)
(* request builder and the "Generate Content Outline" handler that runs    *)
(* them in sequence.                                                       *)
(*                                                                         *)
(* An optional value (Python's None or a value) is a sequence of length 0  *)
(* or 1.  A text is a sequence of word tokens; tokens are strings.         *)
(***************************************************************************)
EXTENDS Integers, Sequences, FiniteSets, TLC

VARIABLES
    uploaded_competitor_files, \* the uploaded documents, in upload order
    keyword,                   \* the target keyword, a text
    article_length,            \* "Short" | "Medium" | "Long"
    content_mode,              \* the radio choice
    embedding_service,         \* [up, emb]: the embedding collaborator
    keyword_cache,             \* optional cached embedding of the keyword
    pc,                        \* position of the handler
    idx,                       \* number of files the extraction loop has done
    all_headings,              \* list of per-document heading dicts
    all_paragraphs,            \* list of per-document paragraph lists
    competitor_meta_info,      \* per-document title, description and headings text
    heading_analysis,          \* optional result of analyze_headings
    semantic_insights,         \* optional result of generate_semantic_insights
    body_insights,             \* optional result of generate_body_insights
    embed_calls,               \* embedding requests sent so far
    prompt,                    \* optional generation request
    attempts,                  \* generation calls made so far
    output,                    \* optional reply of the generation service
    optimized_structure,       \* optional return value of the generator
    word_doc,                  \* optional created Word document
    download_offered,          \* the download button was shown
    errors,                    \* st.error messages shown
    status_text,               \* the status line
    raised,                    \* uncaught exception that ended the run ("" if none)
    log                        \* stage events, in the order they happened

\* what the user supplied and the collaborators
inputs == <<uploaded_competitor_files, keyword, article_length, content_mode,
            embedding_service>>

\* what the extraction loop builds
extracted == <<idx, all_headings, all_paragraphs, competitor_meta_info>>

\* what the ranking steps build
ranked == <<semantic_insights, body_insights, embed_calls, keyword_cache>>

\* what the generation and rendering steps build
generated == <<prompt, attempts, output, optimized_structure, word_doc,
               download_offered>>

vars == <<inputs, extracted, heading_analysis, ranked, generated, pc, errors,
          status_text, raised, log>>

(***************************************************************************)
(* Bounds of the model.                                                    *)
(***************************************************************************)
MaxDocs == 2          \* documents per aggregation input
MaxPerLevel == 6      \* headings of the rich level of one document
MaxNodes == 3         \* elements of one document tree
MaxFragments == 3     \* fragments of the rich level of one ranked document
MaxPolicyPerDoc == 16 \* h1 headings of one document of a sized request

(***************************************************************************)
(* Program constants.                                                      *)
(***************************************************************************)
TopTerms == 10        \* most_common(10)
MaxExamples == 10     \* level_headings[:10]
TopK == 5             \* scored[:5]
MinWords == 5         \* len(p.split()) > 5

Levels == <<"h1", "h2", "h3", "h4">>

(***************************************************************************)
(* Generic sequence helpers.                                               *)
(***************************************************************************)
Min(a, b) == IF a < b THEN a ELSE b

Take(s, n) == SubSeq(s, 1, Min(n, Len(s)))

Reverse(s) == [i \in 1..Len(s) |-> s[Len(s) + 1 - i]]

RECURSIVE Flatten(_)
Flatten(ss) == IF ss = <<>> THEN <<>> ELSE Head(ss) \o Flatten(Tail(ss))

RECURSIVE SumSeq(_)
SumSeq(s) == IF s = <<>> THEN 0 ELSE Head(s) + SumSeq(Tail(s))

(***************************************************************************)
(* Sort keys.  A key is a real number or NaN.  A real is kept as a         *)
(* fraction num/den with den > 0; NaN compares false with everything, as   *)
(* IEEE floats do.                                                         *)
(***************************************************************************)
IntKey(n) == [nan |-> FALSE, num |-> n, den |-> 1]

NaN == [nan |-> TRUE, num |-> 0, den |-> 1]

ISLT(x, y) == ~x.nan /\ ~y.nan /\ x.num * y.den < y.num * x.den

(***************************************************************************)
(* list.sort(key=..., reverse=True) as CPython runs it on a list shorter   *)
(* than 64 items: reverse, find the leading run (count_run), insert the    *)
(* rest by binary insertion (binarysort), reverse again.  Items are        *)
(* records with a field k, the key.                                        *)
(***************************************************************************)
RECURSIVE RunEnd(_, _, _)
RunEnd(s, n, desc) ==
    IF n < Len(s) /\ (ISLT(s[n + 1].k, s[n].k) <=> desc)
    THEN RunEnd(s, n + 1, desc)
    ELSE n

count_run(s) ==
    IF Len(s) < 2 THEN [n |-> Len(s), descending |-> FALSE]
    ELSE LET desc == ISLT(s[2].k, s[1].k)
         IN [n |-> RunEnd(s, 2, desc), descending |-> desc]

RECURSIVE BinarySearch(_, _, _, _)
BinarySearch(s, pivot, l, r) ==
    LET p == l + ((r - l) \div 2)
        l2 == IF ISLT(pivot.k, s[p + 1].k) THEN l ELSE p + 1
        r2 == IF ISLT(pivot.k, s[p + 1].k) THEN p ELSE r
    IN IF l2 < r2 THEN BinarySearch(s, pivot, l2, r2) ELSE l2

RECURSIVE binarysort(_, _)
binarysort(s, start) ==
    IF start >= Len(s) THEN s
    ELSE LET pivot == s[start + 1]
             at == BinarySearch(s, pivot, 0, start)
             moved == SubSeq(s, 1, at) \o <<pivot>> \o SubSeq(s, at + 1, start)
                        \o SubSeq(s, start + 2, Len(s))
         IN binarysort(moved, start + 1)

list_sort(s) ==
    IF Len(s) < 2 THEN s
    ELSE LET run == count_run(s)
             first == IF run.descending
                      THEN Reverse(SubSeq(s, 1, run.n)) \o SubSeq(s, run.n + 1, Len(s))
                      ELSE s
         IN binarysort(first, run.n)

\* a descending sort that forgets the two reversals that keep ties in order
list_sort_reverse_unstable(s) == Reverse(list_sort(s))

list_sort_reverse(s) == Reverse(list_sort(Reverse(s)))

(***************************************************************************)
(* Texts.  A heading or paragraph text is a non-empty sequence of word     *)
(* tokens (what str.split() gives).  TokenTable lists the tokens of the    *)
(* model with what str.lower() and len() give for each.                    *)
(***************************************************************************)
TokenTable ==
    << [text |-> "Intro",   lower |-> "intro",   len |-> 5],
       [text |-> "Pricing", lower |-> "pricing", len |-> 7],
       [text |-> "FAQ",     lower |-> "faq",     len |-> 3],
       [text |-> "intro",   lower |-> "intro",   len |-> 5],
       [text |-> "Guide",   lower |-> "guide",   len |-> 5],
       [text |-> "Tips",    lower |-> "tips",    len |-> 4],
       [text |-> "Cost",    lower |-> "cost",    len |-> 4],
       [text |-> "faq",     lower |-> "faq",     len |-> 3],
       [text |-> "Plans",   lower |-> "plans",   len |-> 5],
       [text |-> "Setup",   lower |-> "setup",   len |-> 5],
       [text |-> "Review",  lower |-> "review",  len |-> 6],
       [text |-> "Demo",    lower |-> "demo",    len |-> 4],
       [text |-> "Pros",    lower |-> "pros",    len |-> 4],
       [text |-> "Cons",    lower |-> "cons",    len |-> 4] >>

TokenTexts == {TokenTable[i].text : i \in 1..Len(TokenTable)}

TokenEntry == [tok \in TokenTexts |->
                 CHOOSE e \in {TokenTable[i] : i \in 1..Len(TokenTable)} : e.text = tok]

\* str.lower() of one token
lower(tok) == TokenEntry[tok].lower

\* len(h): the characters of the words and one separator between two words
StrLen(h) == SumSeq([i \in 1..Len(h) |-> TokenEntry[h[i]].len]) + (Len(h) - 1)

\* " ".join(texts).lower().split()
JoinLowerSplit(texts) == LET toks == Flatten(texts)
                         IN [i \in 1..Len(toks) |-> lower(toks[i])]

(***************************************************************************)
(* collections.Counter: a dict in first-seen order, and most_common(n),    *)
(* which is sorted(items, key=count, reverse=True)[:n].                    *)
(***************************************************************************)
RECURSIVE CounterItems(_, _)
CounterItems(toks, acc) ==
    IF toks = <<>> THEN acc
    ELSE LET t == Head(toks)
             seen == {i \in 1..Len(acc) : acc[i].term = t}
         IN IF seen = {}
            THEN CounterItems(Tail(toks), Append(acc, [term |-> t, n |-> 1]))
            ELSE LET i == CHOOSE j \in seen : TRUE
                 IN CounterItems(Tail(toks), [acc EXCEPT ![i].n = @ + 1])

Counter(toks) == CounterItems(toks, <<>>)

most_common(items, n) ==
    LET keyed == [i \in 1..Len(items) |->
                     [term |-> items[i].term, n |-> items[i].n, k |-> IntKey(items[i].n)]]
        sorted == list_sort_reverse(keyed)
        top == Take(sorted, n)
    IN [i \in 1..Len(top) |-> <<top[i].term, top[i].n>>]

(***************************************************************************)
(* analyze_headings (main.py 371-384).  avg_length is a real: a fraction   *)
(* num/den, 0/1 when the level has no heading.                             *)
(***************************************************************************)
\* the level's headings with the documents taken last to first
LevelHeadingsBackwards(hs, level) == Flatten([d \in 1..Len(hs) |-> hs[Len(hs) + 1 - d][level]])

LevelHeadings(hs, level) == Flatten([d \in 1..Len(hs) |-> hs[d][level]])

LevelAnalysis(hs, level) ==
    LET level_headings == LevelHeadings(hs, level)
    IN [count |-> Len(level_headings),
        avg_length |-> IF level_headings # <<>>
                       THEN [num |-> SumSeq([i \in 1..Len(level_headings) |->
                                                StrLen(level_headings[i])]),
                             den |-> Len(level_headings)]
                       ELSE [num |-> 0, den |-> 1],
        common_words |-> most_common(Counter(JoinLowerSplit(level_headings)), TopTerms),
        examples |-> Take(level_headings, MaxExamples)]

analyze_headings(hs) ==
    [h1 |-> LevelAnalysis(hs, "h1"),
     h2 |-> LevelAnalysis(hs, "h2"),
     h3 |-> LevelAnalysis(hs, "h3"),
     h4 |-> LevelAnalysis(hs, "h4"),
     total_headings_count |-> SumSeq([l \in 1..Len(Levels) |->
                                         Len(LevelHeadings(hs, Levels[l]))])]

(***************************************************************************)
(* Documents.  A parsed document is its elements in document order         *)
(* (preorder), each with its tag, class, id, nesting depth and the words   *)
(* of its own text, plus the state of its title element and of its meta    *)
(* description tag:                                                        *)
(*   title: "absent" | "no_string" (a title whose .string is None: empty   *)
(*          or with several children) | "text"                             *)
(*   meta:  "absent" | "no_content" (name=description, no content          *)
(*          attribute) | "content"                                         *)
(***************************************************************************)
tags_to_remove == {"script", "style", "noscript", "header", "footer", "nav", "aside"}

classes_ids_to_remove ==
    {"nav", "navigation", "sidebar", "footer", "header", "menu", "breadcrumbs",
     "breadcrumb", "site-footer", "site-header", "widget", "widgets",
     "site-navigation", "main-navigation", "secondary-navigation", "site-sidebar"}

\* the proper ancestors of element i
Ancestors(nodes, i) ==
    {j \in 1..(i - 1) : /\ nodes[j].depth < nodes[i].depth
                        /\ \A k \in (j + 1)..i : nodes[k].depth > nodes[j].depth}

\* main.py 39-52: the elements decomposed as boilerplate, with their subtrees
Decomposed(nodes) ==
    LET hit == {i \in 1..Len(nodes) : \/ nodes[i].tag \in tags_to_remove
                                      \/ nodes[i].class \in classes_ids_to_remove
                                      \/ nodes[i].id \in classes_ids_to_remove}
    IN {i \in 1..Len(nodes) : i \in hit \/ Ancestors(nodes, i) \cap hit # {}}

Surviving(nodes) == (1..Len(nodes)) \ Decomposed(nodes)

\* soup.find(...): the first match in document order, 0 for None
FindFirst(S) == IF S = {} THEN 0 ELSE CHOOSE i \in S : \A j \in S : i <= j

\* a scope search that looks for an article before a main
main_content_article_first(nodes) ==
    LET live == Surviving(nodes)
        article == FindFirst({i \in live : nodes[i].tag = "article"})
        main == FindFirst({i \in live : nodes[i].tag = "main"})
    IN IF article # 0 THEN article ELSE main

\* main.py 54-55: main, else article, else div.content, else div#content
main_content(nodes) ==
    LET live == Surviving(nodes)
        main == FindFirst({i \in live : nodes[i].tag = "main"})
        article == FindFirst({i \in live : nodes[i].tag = "article"})
        divclass == FindFirst({i \in live : nodes[i].tag = "div" /\ nodes[i].class = "content"})
        divid == FindFirst({i \in live : nodes[i].tag = "div" /\ nodes[i].id = "content"})
    IN IF main # 0 THEN main
       ELSE IF article # 0 THEN article
       ELSE IF divclass # 0 THEN divclass
       ELSE divid

\* main.py 56-61: the elements content_to_search.find_all can return
SearchSpace(nodes) ==
    LET scope == main_content(nodes)
    IN IF scope # 0
       THEN {i \in Surviving(nodes) : scope \in Ancestors(nodes, i)}
       ELSE Surviving(nodes)

\* a set of element indexes as the sequence in document order
RECURSIVE InOrder(_)
InOrder(S) == IF S = {} THEN <<>>
              ELSE LET i == FindFirst(S) IN <<i>> \o InOrder(S \ {i})

\* get_text(separator=' ', strip=True): the words of the element and of
\* the elements below it
get_text(nodes, i) ==
    LET below == InOrder({j \in Surviving(nodes) : j = i \/ i \in Ancestors(nodes, j)})
    IN Flatten([k \in 1..Len(below) |-> nodes[below[k]].text])

\* main.py 63-70: the texts of the elements of one tag in scope, empty ones dropped
TextsOf(nodes, tag) ==
    LET found == InOrder({i \in SearchSpace(nodes) :
                             nodes[i].tag = tag /\ get_text(nodes, i) # <<>>})
    IN [k \in 1..Len(found) |-> get_text(nodes, found[k])]

\* main.py 37-75.  exc names the exception the call ends with, "" if it returns.
extract_headings_and_body(doc) ==
    [exc |-> IF doc.title = "no_string" THEN "AttributeError"
             ELSE IF doc.meta = "no_content" THEN "KeyError"
             ELSE "",
     meta_title |-> IF doc.title = "text" THEN <<"Guide">> ELSE <<>>,
     meta_description |-> IF doc.meta = "content" THEN <<"Tips">> ELSE <<>>,
     headings |-> [level \in {"h1", "h2", "h3", "h4"} |-> TextsOf(doc.nodes, level)],
     paragraphs |-> TextsOf(doc.nodes, "p")]

(***************************************************************************)
(* The embedding collaborator: up or down, and when up a function from a   *)
(* text to its vector.  The services of the model embed a text by its      *)
(* first word.  A call to a service that is down raises.                   *)
(***************************************************************************)
NoService == [up |-> FALSE, emb |-> <<>>]

Vectors == {<<0, 0>>, <<1, 0>>, <<1, 1>>}

EmbWords == {"Intro", "Pricing", "FAQ", "Guide"}

embed(service, text) == service.emb[text[1]]

Dot(a, b) == SumSeq([i \in 1..Len(a) |-> a[i] * b[i]])

\* main.py 77-78: np.dot(a, b) / (np.linalg.norm(a) * np.linalg.norm(b)).
\* The quotient q of a real result is kept as sign(q) * q^2, an exact
\* fraction that orders as q does; with a zero vector the division is 0/0,
\* which numpy evaluates to NaN.
cosine_similarity(a, b) ==
    LET dot == Dot(a, b)
        norms2 == Dot(a, a) * Dot(b, b)
    IN IF norms2 = 0 THEN NaN
       ELSE [nan |-> FALSE, num |-> IF dot < 0 THEN 0 - dot * dot ELSE dot * dot,
             den |-> norms2]

\* main.py 103-108: h2, h3 and h4 of every document, document by document
competitor_headings(hs) ==
    Flatten([d \in 1..Len(hs) |-> hs[d]["h2"] \o hs[d]["h3"] \o hs[d]["h4"]])

\* main.py 129: the paragraphs of more than 5 words
competitor_paragraphs(ps) ==
    LET all == Flatten(ps)
    IN SelectSeq(all, LAMBDA p : Len(p) > MinWords)

\* main.py 117-120 and 138-141: score, sort by score descending, keep 5.
\* pos is the fragment's place in the candidate list.
TopScored(service, keyword_emb, fragments) ==
    LET scored == [i \in 1..Len(fragments) |->
                      [text |-> fragments[i], pos |-> i,
                       k |-> cosine_similarity(keyword_emb, embed(service, fragments[i]))]]
    IN Take(list_sort_reverse(scored), TopK)

NoSemanticInsights == "No additional semantic insights available."

NoBodyInsights == "No additional body insights available."

\* a ranker that embeds the keyword before it looks at its candidates
RankEmbeddingFirst(service, cache, kw, fragments, sentinel, headline) ==
    IF ~service.up /\ cache = <<>>
    THEN [exc |-> "APIConnectionError", calls |-> 1, cache |-> cache, result |-> <<>>]
    ELSE IF fragments = <<>>
    THEN [exc |-> "", calls |-> IF cache # <<>> THEN 0 ELSE 1,
          cache |-> IF cache # <<>> THEN cache ELSE <<embed(service, kw)>>,
          result |-> <<[text |-> sentinel, items |-> <<>>, picked |-> <<>>]>>]
    ELSE IF ~service.up
    THEN [exc |-> "APIConnectionError", calls |-> 1, cache |-> cache, result |-> <<>>]
    ELSE LET keyword_emb == IF cache # <<>> THEN cache[1] ELSE embed(service, kw)
             top == TopScored(service, keyword_emb, fragments)
         IN [exc |-> "", calls |-> IF cache # <<>> THEN 1 ELSE 2,
             cache |-> <<keyword_emb>>,
             result |-> <<[text |-> headline,
                           items |-> [i \in 1..Len(top) |-> top[i].text],
                           picked |-> [i \in 1..Len(top) |-> top[i].pos]]>>]

\* What a ranker does with its candidates: the exception it ends with ("" if
\* it returns), the embedding requests it sends, the cache it leaves, and
\* its text: the sentinel, or a headline and the listed fragments.
\* get_keyword_embedding (main.py 86-89) sends a request unless the keyword
\* is cached; get_batch_embeddings (main.py 91-96) sends one.
Rank(service, cache, kw, fragments, sentinel, headline) ==
    IF fragments = <<>>
    THEN [exc |-> "", calls |-> 0, cache |-> cache,
          result |-> <<[text |-> sentinel, items |-> <<>>, picked |-> <<>>]>>]
    ELSE IF ~service.up
    THEN [exc |-> "APIConnectionError", calls |-> 1, cache |-> cache, result |-> <<>>]
    ELSE LET keyword_emb == IF cache # <<>> THEN cache[1] ELSE embed(service, kw)
             top == TopScored(service, keyword_emb, fragments)
         IN [exc |-> "", calls |-> IF cache # <<>> THEN 1 ELSE 2,
             cache |-> <<keyword_emb>>,
             result |-> <<[text |-> headline,
                           items |-> [i \in 1..Len(top) |-> top[i].text],
                           picked |-> [i \in 1..Len(top) |-> top[i].pos]]>>]

\* main.py 102-126
generate_semantic_insights(service, cache, kw, hs) ==
    Rank(service, cache, kw, competitor_headings(hs), NoSemanticInsights,
         "Topically relevant areas based on competitor headings:")

\* main.py 128-146
generate_body_insights(service, cache, kw, ps) ==
    Rank(service, cache, kw, competitor_paragraphs(ps), NoBodyInsights,
         "Competitor Body Insights (relevant paragraphs):")

(***************************************************************************)
(* The generation request and the check of the reply.                      *)
(***************************************************************************)
required_markers == {"**Meta Title:**", "**Meta Description:**", "**H1:**",
                     "**H2:", "**Final Summary**"}

\* a check that does not look for the final summary
validate_output_no_summary(out) ==
    {"**Meta Title:**", "**Meta Description:**", "**H1:**", "**H2:"} \subseteq out.markers

\* main.py 151-167: every required marker is found in the output
validate_output(out) == \A marker \in required_markers : marker \in out.markers

\* main.py 175-194: the target word count of the tier
word_count_range(tier) ==
    IF tier = "Short" THEN "around 750 words"
    ELSE IF tier = "Medium" THEN "approximately 1250-1500 words"
    ELSE "approximately 1500-3000 words"

\* main.py 177-194: the number of headings the guidance of the tier asks for
\* ("Aim for ~20-25 headings total" for Long, nothing for the other tiers)
heading_target(tier) ==
    IF tier = "Short" THEN <<>>
    ELSE IF tier = "Medium" THEN <<>>
    ELSE <<20, 25>>

\* main.py 172-245: the request.  heading_analysis and the two insights are
\* parameters, resp. locals, of the function that the f-string does not use.
\* The cut of the competitor summary to 500 characters is not modelled.
BuildRequest(kw, analysis, meta_info, mode, tier) ==
    [keyword |-> kw,
     mode |-> mode,
     word_count_range |-> word_count_range(tier),
     paragraph_guidance |-> tier,
     heading_target |-> heading_target(tier),
     competitor_summary |-> meta_info]

\* the replies of the generation service: the call raises, or returns a text
\* holding some of the markers, or returns no text at all (content None)
Replies ==
    {[kind |-> "raise", markers |-> {}], [kind |-> "none", markers |-> {}]}
       \cup {[kind |-> "content", markers |-> m] : m \in SUBSET required_markers}

(***************************************************************************)
(* The steps of the "Generate Content Outline" handler.  pc names the      *)
(* next step; an uncaught exception sets raised and ends the run where it  *)
(* is.  log records, in order, each extraction, the aggregation, each      *)
(* embedding request and ranker return, each generation call and its       *)
(* return, and the rendering.                                              *)
(***************************************************************************)
Event(stage, n) == [stage |-> stage, n |-> n]

\* main.py 342-351 and 418-419: the click and the check of the inputs (the
\* API key is taken as given)
Click ==
    /\ pc = "start"
    /\ IF keyword # <<>> /\ uploaded_competitor_files # <<>>
       THEN /\ pc' = "extract"
            /\ status_text' = "Extracting data from competitor pages..."
            /\ UNCHANGED errors
       ELSE /\ pc' = "end"
            /\ errors' = errors \cup {"Please provide all required inputs."}
            /\ UNCHANGED status_text
    /\ UNCHANGED <<inputs, extracted, heading_analysis, ranked, generated, raised, log>>

\* an extraction loop that stops after its first document
ExtractFileOnlyFirst ==
    /\ pc = "extract"
    /\ raised = ""
    /\ idx < Len(uploaded_competitor_files)
    /\ LET r == extract_headings_and_body(uploaded_competitor_files[idx + 1])
       IN /\ r.exc = ""
          /\ all_headings' = Append(all_headings, r.headings)
          /\ all_paragraphs' = Append(all_paragraphs, r.paragraphs)
          /\ competitor_meta_info' =
                Append(competitor_meta_info,
                       [n |-> idx + 1, meta_title |-> r.meta_title,
                        meta_description |-> r.meta_description,
                        headings |-> r.headings])
          /\ idx' = idx + 1
          /\ pc' = "analyze"
          /\ status_text' = "Analyzing headings..."
          /\ log' = Append(log, Event("extract", idx + 1))
    /\ UNCHANGED <<inputs, heading_analysis, ranked, generated, errors, raised>>

\* main.py 353-368: one iteration of the extraction loop.  An exception of
\* extract_headings_and_body is not caught: it ends the run.
ExtractFile ==
    /\ pc = "extract"
    /\ raised = ""
    /\ idx < Len(uploaded_competitor_files)
    /\ LET r == extract_headings_and_body(uploaded_competitor_files[idx + 1])
           last == idx + 1 = Len(uploaded_competitor_files)
       IN IF r.exc # ""
          THEN /\ raised' = r.exc
               /\ UNCHANGED <<extracted, pc, status_text, log>>
          ELSE /\ all_headings' = Append(all_headings, r.headings)
               /\ all_paragraphs' = Append(all_paragraphs, r.paragraphs)
               /\ competitor_meta_info' =
                     Append(competitor_meta_info,
                            [n |-> idx + 1, meta_title |-> r.meta_title,
                             meta_description |-> r.meta_description,
                             headings |-> r.headings])
               /\ idx' = idx + 1
               /\ pc' = IF last THEN "analyze" ELSE "extract"
               /\ status_text' = IF last THEN "Analyzing headings..." ELSE status_text
               /\ log' = Append(log, Event("extract", idx + 1))
               /\ UNCHANGED raised
    /\ UNCHANGED <<inputs, heading_analysis, ranked, generated, errors>>

\* main.py 386-389: heading_analysis = analyze_headings(all_headings)
AnalyzeHeadings ==
    /\ pc = "analyze"
    /\ heading_analysis' = <<analyze_headings(all_headings)>>
    /\ pc' = "semantic"
    /\ status_text' = "Generating optimized content structure..."
    /\ log' = Append(log, Event("analyze", 0))
    /\ UNCHANGED <<inputs, extracted, ranked, generated, errors, raised>>

\* the events of a ranker run: its embedding requests, then its return
RankEvents(r, request, return) ==
    [i \in 1..r.calls |-> Event(request, i)]
       \o (IF r.exc = "" THEN <<Event(return, 0)>> ELSE <<>>)

\* main.py 197: semantic_insights = generate_semantic_insights(...)
SemanticInsights ==
    /\ pc = "semantic"
    /\ raised = ""
    /\ LET r == generate_semantic_insights(embedding_service, keyword_cache,
                                           keyword, all_headings)
       IN /\ semantic_insights' = r.result
          /\ embed_calls' = embed_calls + r.calls
          /\ keyword_cache' = r.cache
          /\ raised' = r.exc
          /\ pc' = IF r.exc = "" THEN "body" ELSE pc
          /\ log' = log \o RankEvents(r, "embed_semantic", "semantic")
    /\ UNCHANGED <<inputs, extracted, heading_analysis, body_insights, generated,
                   errors, status_text>>

\* main.py 198: body_insights = generate_body_insights(...)
BodyInsights ==
    /\ pc = "body"
    /\ raised = ""
    /\ LET r == generate_body_insights(embedding_service, keyword_cache,
                                       keyword, all_paragraphs)
       IN /\ body_insights' = r.result
          /\ embed_calls' = embed_calls + r.calls
          /\ keyword_cache' = r.cache
          /\ raised' = r.exc
          /\ pc' = IF r.exc = "" THEN "prompt" ELSE pc
          /\ log' = log \o RankEvents(r, "embed_body", "body")
    /\ UNCHANGED <<inputs, extracted, heading_analysis, semantic_insights,
                   generated, errors, status_text>>

\* main.py 175-194 and 200-245: the tier's guidance and the request text
BuildPrompt ==
    /\ pc = "prompt"
    /\ prompt' = <<BuildRequest(keyword, heading_analysis[1], competitor_meta_info,
                                content_mode, article_length)>>
    /\ pc' = "call"
    /\ UNCHANGED <<inputs, extracted, heading_analysis, ranked, attempts, output,
                   optimized_structure, word_doc, download_offered, errors,
                   status_text, raised, log>>

\* main.py 247-268 as a function of the reply: the value returned and the
\* error shown.  A reply without text makes re.search raise, which the
\* except clause catches like a failed call.
CallOutcome(reply) ==
    IF reply.kind # "content"
    THEN [structure |-> <<>>, error |-> "Error generating optimized structure"]
    ELSE IF ~validate_output(reply)
    THEN [structure |-> <<>>, error |-> "Validation errors in generated output"]
    ELSE [structure |-> <<reply>>, error |-> ""]

\* a generation step that calls again, up to three times, when the call raises
CallGenerationRetrying ==
    /\ pc = "call"
    /\ \E reply \in Replies :
          LET r == CallOutcome(reply)
              again == reply.kind = "raise" /\ attempts + 1 < 3
          IN /\ attempts' = attempts + 1
             /\ output' = <<reply>>
             /\ optimized_structure' = r.structure
             /\ errors' = IF r.error = "" \/ again THEN errors ELSE errors \cup {r.error}
             /\ log' = log \o <<Event("request", attempts + 1), Event("reply", attempts + 1)>>
             /\ pc' = IF again THEN "call" ELSE "result"
    /\ UNCHANGED <<inputs, extracted, heading_analysis, ranked, prompt, word_doc,
                   download_offered, status_text, raised>>

\* main.py 247-268: the one call of the generation service, the check of
\* its reply and the return
CallGeneration ==
    /\ pc = "call"
    /\ \E reply \in Replies :
          LET r == CallOutcome(reply)
          IN /\ attempts' = attempts + 1
             /\ output' = <<reply>>
             /\ optimized_structure' = r.structure
             /\ errors' = IF r.error = "" THEN errors ELSE errors \cup {r.error}
             /\ log' = log \o <<Event("request", attempts + 1), Event("reply", attempts + 1)>>
             /\ pc' = "result"
    /\ UNCHANGED <<inputs, extracted, heading_analysis, ranked, prompt, word_doc,
                   download_offered, status_text, raised>>

\* main.py 273-327: the rendered document, None without content
create_word_document(kw, structure) ==
    IF structure = <<>> THEN <<>>
    ELSE <<[heading |-> kw, markers |-> structure[1].markers]>>

\* main.py 395-417: render and offer the download, or show the failure
HandleResult ==
    /\ pc = "result"
    /\ IF optimized_structure # <<>>
       THEN /\ word_doc' = create_word_document(keyword, optimized_structure)
            /\ download_offered' = (word_doc' # <<>>)
            /\ log' = Append(log, Event("render", 0))
            /\ UNCHANGED errors
       ELSE /\ errors' = errors \cup {"Failed to generate structure. Please try again."}
            /\ UNCHANGED <<word_doc, download_offered, log>>
    /\ status_text' = "Process completed."
    /\ pc' = "done"
    /\ UNCHANGED <<inputs, extracted, heading_analysis, ranked, prompt, attempts,
                   output, optimized_structure, raised>>

(***************************************************************************)
(* Initial states.  Every specification below is the handler started at    *)
(* one of its steps, on a bounded family of inputs to that step.           *)
(***************************************************************************)
PoolToken(j) == TokenTable[((j - 1) % Len(TokenTable)) + 1].text

Kind(tag, class, id) == [tag |-> tag, class |-> class, id |-> id, words |-> 1]

LongParagraph == [tag |-> "p", class |-> "", id |-> "", words |-> 6]

TextTags == {"h1", "h2", "h3", "h4", "p"}

\* depths of a forest in preorder
WellNested(depths) ==
    \A i \in DOMAIN depths :
        IF i = 1 THEN depths[i] = 0 ELSE depths[i] <= depths[i - 1] + 1

\* Element i carries the pool words from the i-th on as its own text when it
\* is a heading or a paragraph, so a returned text names its element.
MakeNodes(kinds, depths) ==
    [i \in DOMAIN kinds |->
        [tag |-> kinds[i].tag, class |-> kinds[i].class, id |-> kinds[i].id,
         depth |-> depths[i],
         text |-> IF kinds[i].tag \in TextTags
                  THEN [k \in 1..kinds[i].words |-> PoolToken(i + k - 1)]
                  ELSE <<>>]]

Page(nodes, title, meta) == [nodes |-> nodes, title |-> title, meta |-> meta]

NothingExtracted ==
    /\ idx = 0
    /\ all_headings = <<>>
    /\ all_paragraphs = <<>>
    /\ competitor_meta_info = <<>>

NothingRanked ==
    /\ semantic_insights = <<>>
    /\ body_insights = <<>>
    /\ embed_calls = 0

NothingGenerated ==
    /\ prompt = <<>>
    /\ attempts = 0
    /\ output = <<>>
    /\ optimized_structure = <<>>
    /\ word_doc = <<>>
    /\ download_offered = FALSE

ExtractEvents(n) == [d \in 1..n |-> Event("extract", d)]

\* ---- the whole handler, from the click ----
PipelineDocs ==
    {Page(<<>>, "text", "content"),
     Page(MakeNodes(<<Kind("main", "", ""), Kind("h2", "", ""), LongParagraph>>,
                    <<0, 1, 1>>), "absent", "absent"),
     Page(MakeNodes(<<Kind("h1", "", ""), Kind("p", "", "")>>, <<0, 0>>),
          "text", "absent"),
     Page(MakeNodes(<<Kind("article", "", ""), Kind("h2", "", ""), Kind("h3", "", "")>>,
                    <<0, 1, 1>>), "text", "content"),
     Page(<<>>, "no_string", "content")}

PipelineServices ==
    {NoService,
     [up |-> TRUE, emb |-> [w \in EmbWords |-> <<1, 0>>]],
     [up |-> TRUE, emb |-> [w \in EmbWords |->
                               IF w = "Pricing" THEN <<1, 1>>
                               ELSE IF w = "FAQ" THEN <<0, 0>> ELSE <<1, 0>>]]}

Init ==
    /\ \E n \in 0..MaxDocs : uploaded_competitor_files \in [1..n -> PipelineDocs]
    /\ keyword \in {<<>>, <<"Guide">>}
    /\ article_length \in {"Short", "Medium", "Long"}
    /\ content_mode \in {"Just Outline & Guidance", "Full Content"}
    /\ embedding_service \in PipelineServices
    /\ keyword_cache \in {<<>>} \cup (IF embedding_service.up /\ keyword # <<>>
                                     THEN {<<embed(embedding_service, keyword)>>}
                                     ELSE {})
    /\ pc = "start"
    /\ NothingExtracted
    /\ heading_analysis = <<>>
    /\ NothingRanked
    /\ NothingGenerated
    /\ errors = {}
    /\ status_text = ""
    /\ raised = ""
    /\ log = <<>>

Next ==
    \/ Click
    \/ ExtractFile
    \/ AnalyzeHeadings
    \/ SemanticInsights
    \/ BodyInsights
    \/ BuildPrompt
    \/ CallGeneration
    \/ HandleResult

Spec == Init /\ [][Next]_vars

\* ---- the aggregator: analyze_headings on generated heading sets ----
\* Document d holds c headings in one level and c % 2 in the others; its
\* k-th heading is the ((d-1)*MaxPerLevel + k)-th heading of a fixed pool,
\* every third one of two words.
HeadingAt(k) == IF k % 3 = 0 THEN <<PoolToken(k), PoolToken(k + 1)>>
                ELSE <<PoolToken(k)>>

GenHeadings(d, c) == [i \in 1..c |-> HeadingAt((d - 1) * MaxPerLevel + i)]

GenDoc(d, c, rich) ==
    [level \in {"h1", "h2", "h3", "h4"} |->
        IF level = rich THEN GenHeadings(d, c) ELSE GenHeadings(d, c % 2)]

DocParams == (0..MaxPerLevel) \X {"h1", "h2", "h3", "h4"}

\* the state a run is in after the extraction of headings hs and paragraphs ps
AfterExtraction(hs, ps) ==
    /\ all_headings = hs
    /\ all_paragraphs = ps
    /\ idx = Len(hs)
    /\ competitor_meta_info =
          [d \in 1..Len(hs) |-> [n |-> d, meta_title |-> <<>>,
                                 meta_description |-> <<>>, headings |-> hs[d]]]
    /\ uploaded_competitor_files = <<>>
    /\ keyword = <<"Guide">>
    /\ NothingGenerated
    /\ errors = {}
    /\ raised = ""

InitAgg ==
    /\ \E n \in 0..MaxDocs : \E ps \in [1..n -> DocParams] :
          AfterExtraction([d \in 1..n |-> GenDoc(d, ps[d][1], ps[d][2])],
                          [d \in 1..n |-> <<>>])
    /\ article_length = "Short"
    /\ content_mode = "Just Outline & Guidance"
    /\ embedding_service = NoService
    /\ keyword_cache = <<>>
    /\ pc = "analyze"
    /\ heading_analysis = <<>>
    /\ NothingRanked
    /\ status_text = "Analyzing headings..."
    /\ log = ExtractEvents(idx)

NextAgg == AnalyzeHeadings

SpecAgg == InitAgg /\ [][NextAgg]_vars

\* ---- the extractor: the loop on one document tree of up to MaxNodes ----
NodeKinds == {Kind("main", "", ""), Kind("article", "", ""),
              Kind("div", "content", ""), Kind("div", "", "content"),
              Kind("nav", "", ""), Kind("div", "sidebar", ""),
              Kind("div", "", "menu"), Kind("h2", "", ""), Kind("p", "", "")}

InitLoop ==
    /\ Len(uploaded_competitor_files) >= 1
    /\ keyword = <<"Guide">>
    /\ article_length = "Short"
    /\ content_mode = "Just Outline & Guidance"
    /\ embedding_service = NoService
    /\ keyword_cache = <<>>
    /\ pc = "extract"
    /\ NothingExtracted
    /\ heading_analysis = <<>>
    /\ NothingRanked
    /\ NothingGenerated
    /\ errors = {}
    /\ status_text = "Extracting data from competitor pages..."
    /\ raised = ""
    /\ log = <<>>

InitScope ==
    /\ \E n \in 1..MaxNodes :
          \E kinds \in [1..n -> NodeKinds] : \E depths \in [1..n -> 0..(n - 1)] :
             /\ WellNested(depths)
             /\ uploaded_competitor_files =
                   <<Page(MakeNodes(kinds, depths), "text", "content")>>
    /\ InitLoop

NextScope == ExtractFile

SpecScope == InitScope /\ [][NextScope]_vars

\* ---- the extractor: up to MaxDocs documents of at most one element, with
\* every state of the title element and of the meta description tag ----
MetaKinds == {Kind("main", "", ""), Kind("h2", "", ""), Kind("p", "", ""),
              Kind("nav", "", "")}

MetaDocs ==
    {Page(nodes, title, meta) :
        nodes \in {<<>>} \cup {MakeNodes(<<k>>, <<0>>) : k \in MetaKinds},
        title \in {"absent", "no_string", "text"},
        meta \in {"absent", "no_content", "content"}}

InitMeta ==
    /\ \E n \in 1..MaxDocs : uploaded_competitor_files \in [1..n -> MetaDocs]
    /\ InitLoop

NextMeta == ExtractFile

SpecMeta == InitMeta /\ [][NextMeta]_vars

\* ---- the rankers: both on generated fragments, with every service ----
\* Document d holds c fragments in one of h2, h3, h4 and c % 2 in the other
\* two, and c paragraphs, every other one of 6 words; a fragment starts with
\* one of three words.
RankText(j, words) ==
    [k \in 1..words |-> IF k = 1 THEN PoolToken(((j - 1) % 3) + 1) ELSE PoolToken(k)]

RankDoc(d, c, rich) ==
    [level \in {"h1", "h2", "h3", "h4"} |->
        IF level = "h1" THEN <<>>
        ELSE IF level = rich THEN [i \in 1..c |-> RankText(d + i, 1)]
        ELSE [i \in 1..(c % 2) |-> RankText(d + i + 1, 1)]]

RankParagraphs(d, c) ==
    [i \in 1..c |-> RankText(d + i, IF i % 2 = 1 THEN 6 ELSE 5)]

RankParams == (0..MaxFragments) \X {"h2", "h3", "h4"}

Services == {NoService} \cup {[up |-> TRUE, emb |-> f] : f \in [EmbWords -> Vectors]}

InitRank ==
    /\ \E n \in 0..MaxDocs : \E ps \in [1..n -> RankParams] :
          AfterExtraction([d \in 1..n |-> RankDoc(d, ps[d][1], ps[d][2])],
                          [d \in 1..n |-> RankParagraphs(d, ps[d][1])])
    /\ article_length = "Short"
    /\ content_mode = "Just Outline & Guidance"
    /\ embedding_service \in Services
    /\ keyword_cache = <<>>
    /\ pc = "semantic"
    /\ heading_analysis = <<analyze_headings(all_headings)>>
    /\ NothingRanked
    /\ status_text = "Generating optimized content structure..."
    /\ log = Append(ExtractEvents(idx), Event("analyze", 0))

NextRank == SemanticInsights \/ BodyInsights

SpecRank == InitRank /\ [][NextRank]_vars

\* ---- the request: built for documents that hold h1 headings only, up to
\* MaxPolicyPerDoc each, so that both rankers have returned their sentinel ----
PolicyDoc(d, c) ==
    [level \in {"h1", "h2", "h3", "h4"} |->
        IF level = "h1" THEN GenHeadings(d, c) ELSE <<>>]

InitPolicy ==
    /\ \E n \in 1..MaxDocs : \E cs \in [1..n -> 0..MaxPolicyPerDoc] :
          AfterExtraction([d \in 1..n |-> PolicyDoc(d, cs[d])], [d \in 1..n |-> <<>>])
    /\ article_length \in {"Short", "Medium", "Long"}
    /\ content_mode \in {"Just Outline & Guidance", "Full Content"}
    /\ embedding_service = NoService
    /\ keyword_cache = <<>>
    /\ pc = "prompt"
    /\ heading_analysis = <<analyze_headings(all_headings)>>
    /\ semantic_insights = <<[text |-> NoSemanticInsights, items |-> <<>>, picked |-> <<>>]>>
    /\ body_insights = <<[text |-> NoBodyInsights, items |-> <<>>, picked |-> <<>>]>>
    /\ embed_calls = 0
    /\ status_text = "Generating optimized content structure..."
    /\ log = ExtractEvents(idx) \o <<Event("analyze", 0), Event("semantic", 0), Event("body", 0)>>

NextPolicy == BuildPrompt

SpecPolicy == InitPolicy /\ [][NextPolicy]_vars

(***************************************************************************)
(* Claims about the aggregator.                                            *)
(***************************************************************************)
LevelSet == {"h1", "h2", "h3", "h4"}

\* number of headings of a level in the documents before document d
Before(level, d) == SumSeq([e \in 1..(d - 1) |-> Len(all_headings[e][level])])

\* the lowercased words of a level, document by document, heading by heading
LevelWords(level) ==
    LET hs == Flatten([d \in 1..Len(all_headings) |-> Flatten(all_headings[d][level])])
    IN [i \in 1..Len(hs) |-> lower(hs[i])]

Occurrences(ws, term) == Cardinality({i \in 1..Len(ws) : ws[i] = term})

FirstSeen(ws, term) == CHOOSE i \in 1..Len(ws) :
                          ws[i] = term /\ \A j \in 1..(i - 1) : ws[j] # term

\* C1: for each level, count is the number of headings of that level over
\* all documents, examples are the first 10 headings of the concatenation in
\* document order then in-document order, avg_length is 0 when the count is
\* 0, and total_headings_count is the sum of the four counts.
C1_CountsAndExamples ==
    heading_analysis # <<>> =>
        LET a == heading_analysis[1]
        IN /\ \A level \in LevelSet :
                /\ a[level].count = Before(level, Len(all_headings) + 1)
                /\ Len(a[level].examples) = Min(10, a[level].count)
                /\ \A d \in 1..Len(all_headings) :
                     \A k \in 1..Len(all_headings[d][level]) :
                        Before(level, d) + k <= 10 =>
                           a[level].examples[Before(level, d) + k] = all_headings[d][level][k]
                /\ (a[level].count = 0 => a[level].avg_length.num = 0)
           /\ a.total_headings_count = a.h1.count + a.h2.count + a.h3.count + a.h4.count

\* C1 witness: two documents were analysed, one level has more than 10
\* headings (its examples are cut to 10) and another level has none.
C1_Witness ==
    /\ heading_analysis # <<>>
    /\ Len(all_headings) = 2
    /\ \E l1, l2 \in LevelSet :
          /\ heading_analysis[1][l1].count > 10
          /\ Len(heading_analysis[1][l1].examples) = 10
          /\ all_headings[2][l1] # <<>>
          /\ heading_analysis[1][l2].count = 0

\* C2: for each level, common_words has at most 10 (term, frequency) pairs
\* over the lowercased words of the level's headings, each term once with
\* its number of occurrences, in non-increasing frequency, and of two terms
\* with the same frequency the one seen first in the text comes first.
C2_CommonWords ==
    heading_analysis # <<>> =>
        \A level \in LevelSet :
            LET cw == heading_analysis[1][level].common_words
                ws == LevelWords(level)
                terms == {ws[i] : i \in 1..Len(ws)}
            IN /\ Len(cw) = Min(10, Cardinality(terms))
               /\ \A i \in 1..Len(cw) :
                     /\ cw[i][1] \in terms
                     /\ cw[i][2] = Occurrences(ws, cw[i][1])
               /\ \A i, j \in 1..Len(cw) :
                     i < j =>
                        /\ cw[i][1] # cw[j][1]
                        /\ cw[i][2] >= cw[j][2]
                        /\ (cw[i][2] = cw[j][2] =>
                               FirstSeen(ws, cw[i][1]) < FirstSeen(ws, cw[j][1]))

\* C2 witness: a level with more than 10 distinct lowercased terms, whose
\* common_words holds 10 pairs, two of them tied, and a term that occurs in
\* the headings in two spellings.
C2_Witness ==
    /\ heading_analysis # <<>>
    /\ \E level \in LevelSet :
          LET cw == heading_analysis[1][level].common_words
              ws == LevelWords(level)
              raw == Flatten([d \in 1..Len(all_headings) |-> Flatten(all_headings[d][level])])
          IN /\ Cardinality({ws[i] : i \in 1..Len(ws)}) > 10
             /\ Len(cw) = 10
             /\ \E i \in 1..9 : cw[i][2] = cw[i + 1][2] /\ cw[i][2] > 1
             /\ \E i, j \in 1..Len(raw) : raw[i] # raw[j] /\ lower(raw[i]) = lower(raw[j])

(***************************************************************************)
(* Claims about the extractor.                                             *)
(***************************************************************************)
\* C5: extract_headings_and_body never raises: whatever the title element
\* and the meta description tag of a document, the call returns, an absent
\* title or description is the empty string, and the loop goes on.
C5_ExtractNeverRaises ==
    /\ raised = ""
    /\ \A d \in 1..idx :
          /\ uploaded_competitor_files[d].title = "absent" =>
                competitor_meta_info[d].meta_title = <<>>
          /\ uploaded_competitor_files[d].meta = "absent" =>
                competitor_meta_info[d].meta_description = <<>>

IsBoilerplate(node) ==
    \/ node.tag \in {"header", "footer", "nav", "aside"}
    \/ node.class \in classes_ids_to_remove
    \/ node.id \in classes_ids_to_remove

\* the elements that are neither boilerplate nor inside boilerplate
Kept(nodes) ==
    {i \in 1..Len(nodes) :
        \A a \in Ancestors(nodes, i) \cup {i} : ~IsBoilerplate(nodes[a])}

KeptOfTag(nodes, tag) == {i \in Kept(nodes) : nodes[i].tag = tag}

\* the first kept main; without a kept main, the first kept article
ClaimedScope(nodes) ==
    IF KeptOfTag(nodes, "main") # {}
    THEN CHOOSE i \in KeptOfTag(nodes, "main") : \A j \in KeptOfTag(nodes, "main") : i <= j
    ELSE CHOOSE i \in KeptOfTag(nodes, "article") :
            \A j \in KeptOfTag(nodes, "article") : i <= j

\* C6: when a main element, or without one an article element, survives
\* the boilerplate removal, every returned heading is the text of a heading
\* element below the first such main (else article) and not inside a
\* removed element.
C6_HeadingsInsideScope ==
    \A d \in 1..idx :
        LET nodes == uploaded_competitor_files[d].nodes
        IN KeptOfTag(nodes, "main") \cup KeptOfTag(nodes, "article") # {} =>
              \A level \in LevelSet :
                 \A k \in 1..Len(all_headings[d][level]) :
                    \E i \in Kept(nodes) :
                       /\ nodes[i].tag = level
                       /\ nodes[i].text # <<>>
                       /\ nodes[i].text[1] = all_headings[d][level][k][1]
                       /\ ClaimedScope(nodes) \in Ancestors(nodes, i)

\* C6 witness: a document was extracted that has a heading inside its main
\* element, which is returned, and a kept heading outside it, which is not.
C6_Witness ==
    /\ idx = 1
    /\ LET nodes == uploaded_competitor_files[1].nodes
       IN /\ KeptOfTag(nodes, "main") # {}
          /\ Len(all_headings[1]["h2"]) = 1
          /\ \E i, j \in KeptOfTag(nodes, "h2") :
                /\ ClaimedScope(nodes) \in Ancestors(nodes, i)
                /\ ClaimedScope(nodes) \notin Ancestors(nodes, j)
                /\ all_headings[1]["h2"][1] = nodes[i].text

(***************************************************************************)
(* Claims about the rankers.                                               *)
(***************************************************************************)
\* the heading candidates: h2, then h3, then h4 of each document, the
\* documents in upload order
HeadingCandidates ==
    Flatten([d \in 1..Len(all_headings) |->
                all_headings[d]["h2"] \o all_headings[d]["h3"] \o all_headings[d]["h4"]])

\* the paragraph candidates: the paragraphs of more than 5 words, in
\* document order
ParagraphCandidates ==
    LET all == Flatten(all_paragraphs)
        long == {i \in 1..Len(all) : Len(all[i]) > 5}
    IN [k \in 1..Cardinality(long) |->
           all[CHOOSE i \in long : Cardinality({j \in long : j <= i}) = k]]

\* the score of a fragment: its similarity to the keyword
ScoreOf(fragment) ==
    cosine_similarity(embed(embedding_service, keyword),
                      embed(embedding_service, fragment))

SameScore(x, y) == ~x.nan /\ ~y.nan /\ x.num * y.den = y.num * x.den

\* the listing of a ranker is the top 5 of its candidates
ListsTopFive(insight, fragments) ==
    LET picked == insight.picked
    IN /\ Len(picked) = Min(5, Len(fragments))
       /\ Len(insight.items) = Len(picked)
       /\ \A i \in 1..Len(picked) :
             /\ picked[i] \in 1..Len(fragments)
             /\ insight.items[i] = fragments[picked[i]]
       /\ \A i, j \in 1..Len(picked) :
             i < j =>
                /\ picked[i] # picked[j]
                /\ ~ISLT(ScoreOf(fragments[picked[i]]), ScoreOf(fragments[picked[j]]))
                /\ (SameScore(ScoreOf(fragments[picked[i]]), ScoreOf(fragments[picked[j]]))
                      => picked[i] < picked[j])
       /\ \A i \in 1..Len(picked) :
             \A q \in (1..Len(fragments)) \ {picked[k] : k \in 1..Len(picked)} :
                ~ISLT(ScoreOf(fragments[picked[i]]), ScoreOf(fragments[q]))

\* C3: with candidates, each ranker lists min(5, number of candidates)
\* fragments, no listed fragment scoring below a later listed one or below
\* an unlisted one, and fragments of equal score in candidate order.
C3_TopFiveByScore ==
    /\ (semantic_insights # <<>> /\ HeadingCandidates # <<>>) =>
          ListsTopFive(semantic_insights[1], HeadingCandidates)
    /\ (body_insights # <<>> /\ ParagraphCandidates # <<>>) =>
          ListsTopFive(body_insights[1], ParagraphCandidates)

\* no event of the log has this stage
NoEvent(stage) == \A i \in 1..Len(log) : log[i].stage # stage

\* C4: a ranker without candidates returns its sentinel text, does not
\* raise and sends no embedding request, whatever the embedding service.
C4_EmptyCandidatesSentinel ==
    /\ (pc \in {"semantic", "body", "prompt", "call", "result", "done"}
          /\ HeadingCandidates = <<>>) =>
          /\ ~(pc = "semantic" /\ raised # "")
          /\ pc # "semantic" =>
                /\ semantic_insights # <<>>
                /\ semantic_insights[1].text = "No additional semantic insights available."
                /\ semantic_insights[1].items = <<>>
          /\ NoEvent("embed_semantic")
    /\ (pc \in {"body", "prompt", "call", "result", "done"}
          /\ ParagraphCandidates = <<>>) =>
          /\ ~(pc = "body" /\ raised # "")
          /\ pc # "body" =>
                /\ body_insights # <<>>
                /\ body_insights[1].text = "No additional body insights available."
                /\ body_insights[1].items = <<>>
          /\ NoEvent("embed_body")

\* C4 witness: both rankers have returned their sentinel for documents
\* without candidates while the embedding service is down.
C4_Witness ==
    /\ pc = "prompt"
    /\ ~embedding_service.up
    /\ Len(all_headings) = 2
    /\ \E d \in 1..2 : all_headings[d]["h1"] # <<>>
    /\ HeadingCandidates = <<>>
    /\ ParagraphCandidates = <<>>
    /\ semantic_insights[1].text = "No additional semantic insights available."
    /\ body_insights[1].text = "No additional body insights available."
    /\ embed_calls = 0

(***************************************************************************)
(* Claims about the handler.                                               *)
(***************************************************************************)
StageRank(stage) ==
    CASE stage = "extract" -> 1
      [] stage = "analyze" -> 2
      [] stage = "embed_semantic" -> 3
      [] stage = "semantic" -> 4
      [] stage = "embed_body" -> 5
      [] stage = "body" -> 6
      [] stage = "request" -> 7
      [] stage = "reply" -> 8
      [] stage = "render" -> 9

\* C7: the documents are extracted one at a time in upload order, the
\* aggregation starts after the last extraction, the embedding requests
\* come after the aggregation, the generation call after both rankers have
\* returned, and the rendering after the generation call has returned.
C7_StageOrder ==
    /\ \A i, j \in 1..Len(log) :
          i < j => StageRank(log[i].stage) <= StageRank(log[j].stage)
    /\ \A i \in 1..Len(log) : log[i].stage = "extract" => log[i].n = i
    /\ ~NoEvent("analyze") =>
          \A d \in 1..Len(uploaded_competitor_files) : log[d] = Event("extract", d)
    /\ (~NoEvent("embed_semantic") \/ ~NoEvent("embed_body")) => ~NoEvent("analyze")
    /\ ~NoEvent("request") => (~NoEvent("semantic") /\ ~NoEvent("body"))
    /\ ~NoEvent("render") => ~NoEvent("reply")

\* C7 witness: a run over two documents that sent embedding requests and
\* rendered the document.
C7_Witness ==
    /\ pc = "done"
    /\ Len(uploaded_competitor_files) = 2
    /\ ~NoEvent("embed_semantic")
    /\ ~NoEvent("embed_body")
    /\ word_doc # <<>>

CallRaised == output # <<>> /\ output[1].kind = "raise"

\* C8 as stated: a failed generation call is surfaced only after more than
\* one attempt.
C8_RetriesBeforeFailure ==
    (pc \in {"result", "done"} /\ CallRaised) => attempts > 1

\* C8 as amended: the generation call is made once and never repeated; when
\* it fails the failure is surfaced at once: the error is shown, None is
\* returned and the request ends as failed.
C8_SingleAttempt ==
    /\ attempts <= 1
    /\ pc \in {"result", "done"} => attempts = 1
    /\ (pc \in {"result", "done"} /\ CallRaised) =>
          /\ optimized_structure = <<>>
          /\ "Error generating optimized structure" \in errors
    /\ (pc = "done" /\ CallRaised) =>
          "Failed to generate structure. Please try again." \in errors

\* C8 witness: a run ended after its one generation call raised.
C8_Witness ==
    /\ pc = "done"
    /\ CallRaised
    /\ attempts = 1
    /\ "Failed to generate structure. Please try again." \in errors

\* the heading-count bounds of a tier: those of the tier's guidance where it
\* states them (Long), else the defaults of the size policy
TierBase(tier) ==
    IF tier = "Short" THEN <<5, 8>>
    ELSE IF tier = "Medium" THEN <<8, 12>>
    ELSE <<20, 25>>

\* C9: the request carries the heading-count target base_min + extra to
\* base_max + extra of its tier, with extra = min((total - 20) \div 10,
\* base_max - base_min) when total_headings_count > 20 and 0 otherwise.
C9_SizePolicy ==
    prompt # <<>> =>
        LET total == heading_analysis[1].total_headings_count
            base == TierBase(article_length)
            extra == IF total > 20
                     THEN Min((total - 20) \div 10, base[2] - base[1])
                     ELSE 0
        IN /\ base[1] + extra <= base[2] + extra
           /\ prompt[1].heading_target = <<base[1] + extra, base[2] + extra>>

FiveMarkers == {"**Meta Title:**", "**Meta Description:**", "**H1:**", "**H2:",
                "**Final Summary**"}

GenerationFailed ==
    /\ output # <<>>
    /\ output[1].kind # "content" \/ ~(FiveMarkers \subseteq output[1].markers)

\* C10: the Word document is created and the download offered only if the
\* generation call returned a text with all five markers; if the call
\* raises or a marker is missing, None is returned, nothing is rendered,
\* the failure is shown and the run goes on to "Process completed.".
C10_DocumentOnlyWhenValid ==
    /\ (word_doc # <<>> \/ download_offered \/ ~NoEvent("render")) =>
          /\ output # <<>>
          /\ output[1].kind = "content"
          /\ FiveMarkers \subseteq output[1].markers
    /\ (pc \in {"result", "done"} /\ GenerationFailed) =>
          /\ optimized_structure = <<>>
          /\ word_doc = <<>>
          /\ ~download_offered
          /\ NoEvent("render")
    /\ (pc = "result" /\ GenerationFailed) => ENABLED HandleResult
    /\ (pc = "done" /\ GenerationFailed) =>
          /\ "Failed to generate structure. Please try again." \in errors
          /\ status_text = "Process completed."

\* C10 witness: a run ended without a document because the reply lacked
\* exactly one marker, and the failure was shown.
C10_Witness ==
    /\ pc = "done"
    /\ output[1].kind = "content"
    /\ Cardinality(output[1].markers) = 4
    /\ word_doc = <<>>
    /\ "Failed to generate structure. Please try again." \in errors
    /\ status_text = "Process completed."

====
